---- MODULE Spec2Model ----
(***************************************************************************)
(* The Pub/Sub webhook of the Rescam API: handlePubSubWebhook and the      *)
(* background task processGmailNotification it starts, together with the   *)
(* services the task calls (token store, Gmail, classifier, result store,  *)
(* SSE notifier).  Every await of the two async functions is a point where *)
(* other requests and tasks interleave, so each action below is one        *)
(* synchronous segment of the code: the settling of the awaited call       *)
(* followed by everything up to the next await.  The dashboard in the      *)
(* browser (the Inbox on its event stream, the Start Gmail Monitoring      *)
(* button) is modelled next to it and has a specification of its own.      *)
(***************************************************************************)
EXTENDS Integers, Sequences, FiniteSets, TLC

\* ---------------------------------------------------------------- bounds
NumReqs == 2            \* webhook requests received in one behaviour
MaxMsgs == 2            \* messages that arrive, over all mailboxes

\* ------------------------------------------------------------- constants
Users == {"u1", "u2"}
NoUser == "undefined"   \* messageData.emailAddress of a payload without it
Undefined == 0          \* JS undefined/null: falsy, never a Gmail historyId
BaseHist == 1           \* historyId of a mailbox at watch setup (truthy)
Reqs == 1..NumReqs
HistoryIds == BaseHist..(BaseHist + MaxMsgs)
Categories == {"benign", "spam", "scam", "suspicious"}
ClassifierOutputs == {"scam"}   \* what classifyEmail resolves with

VARIABLES
    tokens,     \* tokenStore: users with an access token on file
    cursor,     \* tokenStore: user -> last stored historyId (Watch State)
    mailbox,    \* Gmail: user -> number of messages received so far
    published,  \* Pub/Sub: notifications published for delivery
    store,      \* Result Store: user -> the stored Classification Records
    sse,        \* emails.js: user -> events pushed by notifyEmailUpdate
    pc,         \* request -> the await the handler/task is suspended on,
                \*            or the place where it ended
    env,        \* request -> req.body as the handler sees it
    resp,       \* request -> statuses passed to res.status(..).send()
    user,       \* request -> userEmail
    hist,       \* request -> historyId / notificationHistoryId
    last,       \* request -> lastProcessedHistoryId
    batch,      \* request -> messageIds
    idx,        \* request -> position of the for-loop in messageIds
    cls,        \* request -> classification of the current message
    userEmail,  \* Inbox: the userEmail prop
    eventSource,\* Inbox: the user whose stream the open EventSource reads
    emails,     \* Inbox: the emails state, newest first
    storedToken,\* browser: getStoredToken() of googleAuth finds a token
    isWatching, \* Dashboard: the isWatching state
    loading,    \* Dashboard: the loading state
    watchPc,    \* Dashboard: where startWatching is
    location    \* browser: the route that is shown

services == <<tokens, cursor, mailbox, published, store, sse>>
locals == <<env, user, hist, last, batch, idx, cls>>
backend == <<tokens, cursor, mailbox, published, store, sse,
             pc, env, resp, user, hist, last, batch, idx, cls>>
ui == <<userEmail, eventSource, emails,
        storedToken, isWatching, loading, watchPc, location>>
vars == <<tokens, cursor, mailbox, published, store, sse,
          pc, env, resp, user, hist, last, batch, idx, cls,
          userEmail, eventSource, emails,
          storedToken, isWatching, loading, watchPc, location>>

\* where a request can be
HandlerPcs == {"received", "getStoredToken"}
TaskPcs == {"getGmailClient", "getLastHistoryId", "getMessagesSinceHistoryId",
            "getMessage", "classifyEmail", "saveEmailClassification",
            "storeLastHistoryId"}
LoopPcs == {"getMessage", "classifyEmail", "saveEmailClassification"}
EndPcs == {"return400", "catch500", "noToken", "taskCatch", "taskEnd"}

\* ----------------------------------------------------------- small helpers
SeqToSet(s) == {s[i] : i \in 1..Len(s)}

\* JS truthiness of a historyId value (`!lastProcessedHistoryId`)
Falsy(x) == x = Undefined

\* ------------------------------------------------------------- envelopes
\* message.data as it arrives: absent/empty, text that is not base64 of
\* JSON, the JSON literal null, or a JSON object with the two fields
\* (either of which may be missing).
Payloads ==
    [kind : {"object"}, emailAddress : Users, historyId : HistoryIds]
    \cup [kind : {"object"}, emailAddress : {"u1"}, historyId : {Undefined}]
    \cup [kind : {"object"}, emailAddress : {NoUser}, historyId : {BaseHist}]
NoPayload(k) == [kind |-> k, emailAddress |-> NoUser, historyId |-> Undefined]
MalformedData == {NoPayload(k) : k \in {"missing", "not_json", "json_null"}}
NoBody == [message |-> FALSE, data |-> NoPayload("missing")]
Envelopes == [message : {TRUE}, data : Payloads \cup MalformedData] \cup {NoBody}

\* JSON.parse(Buffer.from(message.data, 'base64').toString('utf-8')):
\* Buffer.from never throws (it skips characters outside the alphabet), so
\* bad base64 and non-JSON text both end in JSON.parse throwing.
JSONParse(data) ==
    CASE data.kind = "object" ->
            [ok |-> TRUE, isNull |-> FALSE,
             emailAddress |-> data.emailAddress, historyId |-> data.historyId]
      [] data.kind = "json_null" ->
            [ok |-> TRUE, isNull |-> TRUE,
             emailAddress |-> NoUser, historyId |-> Undefined]
      [] OTHER ->
            [ok |-> FALSE, isNull |-> FALSE,
             emailAddress |-> NoUser, historyId |-> Undefined]

\* `!message || !message.data`
InvalidFormat(e) == ~e.message \/ e.data.kind = "missing"

\* ------------------------------------------------------------------ Init
NoLocals(r) ==
    /\ user[r] = NoUser /\ hist[r] = Undefined /\ last[r] = Undefined
    /\ batch[r] = <<>> /\ idx[r] = 0 /\ cls[r] = "none"

Init ==
    /\ tokens = {"u1"}
    /\ cursor \in [Users -> {Undefined, BaseHist}]
    /\ cursor["u2"] = Undefined
    /\ mailbox = [u \in Users |-> 0]
    /\ published = {}
    /\ store = [u \in Users |-> <<>>]
    /\ sse = [u \in Users |-> <<>>]
    /\ pc = [r \in Reqs |-> "idle"]
    /\ env = [r \in Reqs |-> NoBody]
    /\ resp = [r \in Reqs |-> <<>>]
    /\ user = [r \in Reqs |-> NoUser]
    /\ hist = [r \in Reqs |-> Undefined]
    /\ last = [r \in Reqs |-> Undefined]
    /\ batch = [r \in Reqs |-> <<>>]
    /\ idx = [r \in Reqs |-> 0]
    /\ cls = [r \in Reqs |-> "none"]
    /\ userEmail = "u1"
    /\ eventSource = NoUser
    /\ emails = <<>>
    /\ storedToken = TRUE
    /\ isWatching = FALSE
    /\ loading = FALSE
    /\ watchPc = "idle"
    /\ location = "/dashboard"

\* ------------------------------------------------- services the code calls
\* gmailService.getMessagesSinceHistoryId: the ids of the messages added to
\* the mailbox after history point h, oldest first.  Message i of a mailbox
\* was added at historyId BaseHist + i.
HistoryIdOf(m) == BaseHist + m
MessagesSince(u, h) ==
    LET first == h - BaseHist + 1
        n == mailbox[u]
    IN  IF first > n THEN <<>> ELSE [k \in 1..(n - first + 1) |-> first + k - 1]

\* tokenStore.getStoredToken(userEmail)?.access_token
AccessToken(u) == u \in tokens

\* gcsService.saveEmailClassification writes the record to the user's
\* location for that message id: in place of the record that is there, when
\* there is one
Upsert(arr, rec) ==
    IF \E i \in 1..Len(arr) : arr[i].id = rec.id
    THEN [i \in 1..Len(arr) |-> IF arr[i].id = rec.id THEN rec ELSE arr[i]]
    ELSE Append(arr, rec)

\* emails.notifyEmailUpdate(userEmail, emailData, type): the event pushed to
\* the user's dashboard stream
Notify(stream, emailData, type) ==
    Append(stream, [type |-> type, email |-> emailData])

\* ------------------------------------------------------------------ Inbox
\* every new_email is put in front of the list, also one whose id is there
onmessage_noCheck(prevEmails, data) ==
    IF data.type = "new_email"
    THEN <<data.email>> \o prevEmails
    ELSE prevEmails

\* Inbox.jsx lines 21-42, eventSource.onmessage: the list after the event
\* data has been handled (the events of the stream all carry an email)
onmessage(prevEmails, data) ==
    IF data.type = "new_email"
    THEN IF \E i \in 1..Len(prevEmails) : prevEmails[i].id = data.email.id
         THEN prevEmails
         ELSE <<data.email>> \o prevEmails
    ELSE prevEmails

\* Inbox.jsx line 4 and lines 21-42: the list of an Inbox that started
\* empty and has received, of the first n events of the stream, those at
\* the positions in got (it misses the events pushed while it is not
\* connected)
RECURSIVE Emails(_, _, _)
Emails(stream, got, n) ==
    IF n = 0 THEN <<>>
    ELSE LET prevEmails == Emails(stream, got, n - 1)
         IN  IF n \in got THEN onmessage(prevEmails, stream[n])
                           ELSE prevEmails

\* EmailItem.jsx lines 12-15, getClassificationLabel: the category shown
\* for a record
getClassificationLabel(classification) ==
    IF classification = "none" THEN "Pending" ELSE classification

\* Gmail's id of message m of u's mailbox, as the stream of u carries it:
\* the ids of different mailboxes differ
MessageIdOf(u, m) == <<u, m>>

\* what can arrive as event.data on the stream of u: text that is not
\* JSON, or a JSON object with a type and with or without an email
NotJson ==
    [json |-> FALSE, type |-> "none", hasEmail |-> FALSE,
     email |-> [id |-> MessageIdOf(NoUser, 0)]]
SseEvents(u) ==
    {NotJson} \cup
    [json : {TRUE}, type : {"connected", "new_email", "ping"},
     hasEmail : {FALSE}, email : {NotJson.email}] \cup
    [json : {TRUE}, type : {"connected", "new_email", "ping"},
     hasEmail : {TRUE}, email : {[id |-> MessageIdOf(u, m)] : m \in 1..MaxMsgs}]

\* the type of the message is not looked at
eventSource_onmessage_anyType(prevEmails, event) ==
    IF event.json /\ event.hasEmail
    THEN onmessage(prevEmails, [type |-> "new_email", email |-> event.email])
    ELSE prevEmails

\* Inbox.jsx lines 21-42, the whole handler: JSON.parse throws into the
\* catch block; 'connected' only sets the connected flag; a 'new_email'
\* with an email goes to the setEmails updater; anything else is ignored
eventSource_onmessage(prevEmails, event) ==
    IF ~event.json THEN prevEmails
    ELSE IF event.type = "connected" THEN prevEmails
    ELSE IF event.type = "new_email" /\ event.hasEmail
         THEN onmessage(prevEmails, event)
         ELSE prevEmails

\* the Dashboard is rendered for another stored user: the Inbox gets a new
\* userEmail prop
InboxRender(u) ==
    /\ location = "/dashboard"
    /\ u # userEmail
    /\ userEmail' = u
    /\ UNCHANGED <<eventSource, emails>>
    /\ UNCHANGED <<storedToken, isWatching, loading, watchPc, location>>
    /\ UNCHANGED backend

\* Inbox.jsx lines 8-13 and 54-60: the effect of [userEmail] runs after the
\* render; its cleanup closes the EventSource of the previous userEmail,
\* then the EventSource of the new one is created
InboxEffect ==
    /\ location = "/dashboard"
    /\ eventSource # userEmail
    /\ eventSource' = userEmail
    /\ UNCHANGED <<userEmail, emails>>
    /\ UNCHANGED <<storedToken, isWatching, loading, watchPc, location>>
    /\ UNCHANGED backend

\* Inbox.jsx lines 54-59: the cleanup at unmount
InboxUnmount ==
    /\ location = "/"
    /\ eventSource # NoUser
    /\ eventSource' = NoUser
    /\ UNCHANGED <<userEmail, emails>>
    /\ UNCHANGED <<storedToken, isWatching, loading, watchPc, location>>
    /\ UNCHANGED backend

\* Inbox.jsx lines 21-42: a message arrives on the open EventSource
InboxMessage(event) ==
    /\ eventSource # NoUser
    /\ event \in SseEvents(eventSource)
    /\ emails' = eventSource_onmessage(emails, event)
    /\ UNCHANGED <<userEmail, eventSource>>
    /\ UNCHANGED <<storedToken, isWatching, loading, watchPc, location>>
    /\ UNCHANGED backend

\* -------------------------------------------------------------- Dashboard
\* the token is removed from the browser's storage (sign-out in another
\* tab, cleared storage)
TokenCleared ==
    /\ storedToken
    /\ storedToken' = FALSE
    /\ UNCHANGED <<isWatching, loading, watchPc, location>>
    /\ UNCHANGED <<userEmail, eventSource, emails>>
    /\ UNCHANGED backend

\* the return of the missing-token branch skips the finally block
startWatching_noFinally ==
    /\ location = "/dashboard" /\ watchPc = "idle"
    /\ ~isWatching /\ ~loading
    /\ IF ~storedToken
       THEN /\ loading' = TRUE
            /\ location' = "/"
            /\ UNCHANGED watchPc
       ELSE /\ loading' = TRUE
            /\ watchPc' = "axios.post"
            /\ UNCHANGED location
    /\ UNCHANGED <<storedToken, isWatching>>
    /\ UNCHANGED <<userEmail, eventSource, emails>>
    /\ UNCHANGED backend

\* Dashboard lines 13-28 and 34-36: the button (shown while !isWatching,
\* enabled while !loading) is clicked; without a token the function alerts,
\* navigates to '/' and returns through finally; with a token it sends the
\* POST and suspends on it with loading set
startWatching ==
    /\ location = "/dashboard" /\ watchPc = "idle"
    /\ ~isWatching /\ ~loading
    /\ IF ~storedToken
       THEN /\ loading' = FALSE
            /\ location' = "/"
            /\ UNCHANGED watchPc
       ELSE /\ loading' = TRUE
            /\ watchPc' = "axios.post"
            /\ UNCHANGED location
    /\ UNCHANGED <<storedToken, isWatching>>
    /\ UNCHANGED <<userEmail, eventSource, emails>>
    /\ UNCHANGED backend

\* lines 29-30 and 34-36: the POST succeeded
axiosPostResolves ==
    /\ watchPc = "axios.post"
    /\ isWatching' = TRUE
    /\ loading' = FALSE
    /\ watchPc' = "idle"
    /\ UNCHANGED <<storedToken, location>>
    /\ UNCHANGED <<userEmail, eventSource, emails>>
    /\ UNCHANGED backend

\* lines 31-36: the POST failed
axiosPostRejects ==
    /\ watchPc = "axios.post"
    /\ loading' = FALSE
    /\ watchPc' = "idle"
    /\ UNCHANGED <<storedToken, isWatching, location>>
    /\ UNCHANGED <<userEmail, eventSource, emails>>
    /\ UNCHANGED backend

\* ------------------------------------------------------------ environment
RECURSIVE Sum(_, _)
Sum(f, S) ==
    IF S = {} THEN 0
    ELSE LET x == CHOOSE y \in S : TRUE IN f[x] + Sum(f, S \ {x})
Arrived == Sum(mailbox, Users)

\* A message arrives in u's mailbox; Gmail publishes a notification that
\* carries the mailbox's new historyId.
MailArrives(u) ==
    /\ Arrived < MaxMsgs
    /\ mailbox' = [mailbox EXCEPT ![u] = @ + 1]
    /\ published' = published \cup
          {[emailAddress |-> u, historyId |-> HistoryIdOf(mailbox[u] + 1)]}
    /\ UNCHANGED <<tokens, cursor, store, sse, pc, resp>>
    /\ UNCHANGED locals
    /\ UNCHANGED ui

\* What can be POSTed to the webhook: a published notification (Pub/Sub
\* delivers at least once, in any order), or an envelope that is malformed
\* or lacks a field.
Deliverable ==
    {e \in Envelopes :
        (e.data.kind = "object" /\ e.data.emailAddress # NoUser
                                /\ e.data.historyId # Undefined)
        => [emailAddress |-> e.data.emailAddress,
            historyId |-> e.data.historyId] \in published}

InFlight == {r \in Reqs : pc[r] \in HandlerPcs \cup TaskPcs}

\* --------------------------------------------------- handlePubSubWebhook
\* res.status(s).send() / .json()
Respond(r, s) == resp' = [resp EXCEPT ![r] = Append(@, s)]

\* the function returns: the request and its locals are gone
Return(r, at) ==
    /\ pc' = [pc EXCEPT ![r] = at]
    /\ env' = [env EXCEPT ![r] = NoBody]
    /\ user' = [user EXCEPT ![r] = NoUser]
    /\ hist' = [hist EXCEPT ![r] = Undefined]
    /\ last' = [last EXCEPT ![r] = Undefined]
    /\ batch' = [batch EXCEPT ![r] = <<>>]
    /\ idx' = [idx EXCEPT ![r] = 0]
    /\ cls' = [cls EXCEPT ![r] = "none"]

\* the 400 is sent but the handler does not return
RejectInvalidFormat_noReturn(r) ==
    /\ Respond(r, 400)
    /\ pc' = [pc EXCEPT ![r] = "getStoredToken"]
    /\ UNCHANGED <<env, user, hist, last, batch, idx, cls>>

\* lines 17-19: the envelope has no message or no message.data
RejectInvalidFormat(r) ==
    /\ Respond(r, 400)
    /\ Return(r, "return400")

\* the catch block only logs the error
HandlerCatch_noResponse(r) ==
    /\ UNCHANGED resp
    /\ Return(r, "catch500")

\* lines 52-55: the catch block of the handler
HandlerCatch(r) ==
    /\ Respond(r, 500)
    /\ Return(r, "catch500")

\* the acknowledgement is left for after the token lookup
Acknowledge_late(r, md) ==
    /\ user' = [user EXCEPT ![r] = md.emailAddress]
    /\ hist' = [hist EXCEPT ![r] = md.historyId]
    /\ pc' = [pc EXCEPT ![r] = "getStoredToken"]
    /\ UNCHANGED <<resp, env, last, batch, idx, cls>>

\* lines 26-35: acknowledge, then call getStoredToken and suspend on it
Acknowledge(r, md) ==
    /\ user' = [user EXCEPT ![r] = md.emailAddress]
    /\ hist' = [hist EXCEPT ![r] = md.historyId]
    /\ Respond(r, 200)
    /\ pc' = [pc EXCEPT ![r] = "getStoredToken"]
    /\ UNCHANGED <<env, last, batch, idx, cls>>

\* Pub/Sub POSTs envelope e to the webhook: the request is routed to the
\* handler with e as req.body
Push(r, e) ==
    /\ pc[r] = "idle"
    /\ \A q \in Reqs : q < r => pc[q] # "idle"   \* numbered by arrival
    /\ e \in Deliverable
    /\ env' = [env EXCEPT ![r] = e]
    /\ pc' = [pc EXCEPT ![r] = "received"]
    /\ UNCHANGED <<resp, user, hist, last, batch, idx, cls>>
    /\ UNCHANGED services
    /\ UNCHANGED ui

\* lines 12-35, the synchronous part of the handler
handlePubSubWebhook(r) ==
    /\ pc[r] = "received"
    /\ IF InvalidFormat(env[r])
       THEN RejectInvalidFormat(r)
       ELSE LET md == JSONParse(env[r].data)
            IN  IF ~md.ok \/ md.isNull
                THEN HandlerCatch(r)
                ELSE Acknowledge(r, md)
    /\ UNCHANGED services
    /\ UNCHANGED ui

\* line 35 rejects: the catch block runs although 200 was already sent
getStoredTokenRejects(r) ==
    /\ pc[r] = "getStoredToken"
    /\ HandlerCatch(r)
    /\ UNCHANGED services
    /\ UNCHANGED ui

\* the missing token is logged but the handler goes on to start the task
NoAccessToken_noReturn(r) ==
    /\ pc[r] = "getStoredToken"
    /\ ~AccessToken(user[r])
    /\ pc' = [pc EXCEPT ![r] = "getGmailClient"]
    /\ UNCHANGED resp
    /\ UNCHANGED locals
    /\ UNCHANGED services
    /\ UNCHANGED ui

\* lines 36-42: no access token on file, log and return
NoAccessToken(r) ==
    /\ pc[r] = "getStoredToken"
    /\ ~AccessToken(user[r])
    /\ Return(r, "noToken")
    /\ UNCHANGED resp
    /\ UNCHANGED services
    /\ UNCHANGED ui

\* a user's notifications are processed one at a time: the task starts only
\* when no other task of that user is running
StartProcessing_oneAtATime(r) ==
    /\ pc[r] = "getStoredToken"
    /\ AccessToken(user[r])
    /\ \A q \in Reqs \ {r} : ~(pc[q] \in TaskPcs /\ user[q] = user[r])
    /\ pc' = [pc EXCEPT ![r] = "getGmailClient"]
    /\ UNCHANGED resp
    /\ UNCHANGED locals
    /\ UNCHANGED services
    /\ UNCHANGED ui

\* lines 44-50 and 59-64: the task starts and suspends on getGmailClient
StartProcessing(r) ==
    /\ pc[r] = "getStoredToken"
    /\ AccessToken(user[r])
    /\ pc' = [pc EXCEPT ![r] = "getGmailClient"]
    /\ UNCHANGED resp
    /\ UNCHANGED locals
    /\ UNCHANGED services
    /\ UNCHANGED ui

\* ---------------------------------------------- processGmailNotification
\* lines 147-150: the catch block of the task
TaskCatch(r) == Return(r, "taskCatch")

\* the cursor is advanced to the last message of the batch
CursorValue_lastMessage(r) ==
    IF Len(batch[r]) = 0 THEN hist[r]
    ELSE HistoryIdOf(batch[r][Len(batch[r])])

\* lines 90 and 144: storeLastHistoryId is called with the notification's
\* historyId
CursorValue(r) == hist[r]
CallStoreLastHistoryId(r) ==
    /\ pc' = [pc EXCEPT ![r] = "storeLastHistoryId"]
    /\ cls' = [cls EXCEPT ![r] = "none"]

\* line 97: the for-loop moves to the next messageId and calls getMessage,
\* or ends after the last one
NextMessage(r) ==
    IF idx[r] < Len(batch[r])
    THEN /\ idx' = [idx EXCEPT ![r] = @ + 1]
         /\ pc' = [pc EXCEPT ![r] = "getMessage"]
         /\ cls' = [cls EXCEPT ![r] = "none"]
    ELSE /\ CallStoreLastHistoryId(r)
         /\ UNCHANGED idx

\* no try/catch inside the loop: the failure ends the task in the outer catch
MessageCatch_abort(r) ==
    /\ pc' = [pc EXCEPT ![r] = "taskCatch"]
    /\ idx' = [idx EXCEPT ![r] = 0]
    /\ cls' = [cls EXCEPT ![r] = "none"]

\* the catch block inside the loop tries the same message again
MessageCatch_retry(r) ==
    /\ pc' = [pc EXCEPT ![r] = "getMessage"]
    /\ cls' = [cls EXCEPT ![r] = "none"]
    /\ UNCHANGED idx

\* lines 136-139: the catch block inside the loop logs and goes on
MessageCatch(r) == NextMessage(r)

\* line 64 settles
getGmailClientResolves(r) ==
    /\ pc[r] = "getGmailClient"
    /\ pc' = [pc EXCEPT ![r] = "getLastHistoryId"]
    /\ UNCHANGED resp
    /\ UNCHANGED locals
    /\ UNCHANGED services
    /\ UNCHANGED ui

getGmailClientRejects(r) ==
    /\ pc[r] = "getGmailClient"
    /\ TaskCatch(r)
    /\ UNCHANGED resp
    /\ UNCHANGED services
    /\ UNCHANGED ui

\* the listing always starts from the notification's historyId
StartHistoryId_notification(r) == hist[r]

\* lines 68-83: the stored cursor, or the notification's historyId when none
\* is stored, is the point the listing starts from
StartHistoryId(r) ==
    IF Falsy(cursor[user[r]]) THEN hist[r] ELSE cursor[user[r]]

getLastHistoryIdResolves(r) ==
    /\ pc[r] = "getLastHistoryId"
    /\ last' = [last EXCEPT ![r] = StartHistoryId(r)]
    /\ pc' = [pc EXCEPT ![r] = "getMessagesSinceHistoryId"]
    /\ UNCHANGED <<resp, env, user, hist, batch, idx, cls>>
    /\ UNCHANGED services
    /\ UNCHANGED ui

getLastHistoryIdRejects(r) ==
    /\ pc[r] = "getLastHistoryId"
    /\ TaskCatch(r)
    /\ UNCHANGED resp
    /\ UNCHANGED services
    /\ UNCHANGED ui

\* lines 83-94: the listing returns; an empty batch goes straight to the
\* cursor write, otherwise the loop starts with the first messageId
getMessagesResolves(r) ==
    /\ pc[r] = "getMessagesSinceHistoryId"
    /\ ~Falsy(last[r])
    /\ LET ids == MessagesSince(user[r], last[r])
       IN  /\ batch' = [batch EXCEPT ![r] = ids]
           /\ IF Len(ids) = 0
              THEN /\ CallStoreLastHistoryId(r)
                   /\ UNCHANGED idx
              ELSE /\ idx' = [idx EXCEPT ![r] = 1]
                   /\ pc' = [pc EXCEPT ![r] = "getMessage"]
                   /\ UNCHANGED cls
    /\ UNCHANGED <<resp, env, user, hist, last>>
    /\ UNCHANGED services
    /\ UNCHANGED ui

\* a failed listing is treated like an empty one: the cursor is advanced
getMessagesRejects_storesCursor(r) ==
    /\ pc[r] = "getMessagesSinceHistoryId"
    /\ cursor' = [cursor EXCEPT ![user[r]] = CursorValue(r)]
    /\ TaskCatch(r)
    /\ UNCHANGED resp
    /\ UNCHANGED <<tokens, mailbox, published, store, sse>>
    /\ UNCHANGED ui

getMessagesRejects(r) ==
    /\ pc[r] = "getMessagesSinceHistoryId"
    /\ TaskCatch(r)
    /\ UNCHANGED resp
    /\ UNCHANGED services
    /\ UNCHANGED ui

\* the record is saved as soon as the message is fetched, before it is
\* classified
getMessageResolves_saveFirst(r) ==
    /\ pc[r] = "getMessage"
    /\ pc' = [pc EXCEPT ![r] = "saveEmailClassification"]
    /\ UNCHANGED resp
    /\ UNCHANGED locals
    /\ UNCHANGED services
    /\ UNCHANGED ui

\* lines 102-112: the message is fetched and parsed, classifyEmail is called
getMessageResolves(r) ==
    /\ pc[r] = "getMessage"
    /\ pc' = [pc EXCEPT ![r] = "classifyEmail"]
    /\ UNCHANGED resp
    /\ UNCHANGED locals
    /\ UNCHANGED services
    /\ UNCHANGED ui

\* the catch block tells the dashboard about the failure
getMessageFails_surfaced(r) ==
    /\ pc[r] = "getMessage"
    /\ sse' = [sse EXCEPT ![user[r]] =
                  Notify(@, [id |-> batch[r][idx[r]], classification |-> "none",
                             processedAt |-> r], "error")]
    /\ MessageCatch(r)
    /\ UNCHANGED <<resp, env, user, hist, last, batch>>
    /\ UNCHANGED <<tokens, cursor, mailbox, published, store>>
    /\ UNCHANGED ui

\* getMessage rejects, or parseGmailMessage / extractGmailMetadata throws
getMessageFails(r) ==
    /\ pc[r] = "getMessage"
    /\ MessageCatch(r)
    /\ UNCHANGED <<resp, env, user, hist, last, batch>>
    /\ UNCHANGED services
    /\ UNCHANGED ui

\* the save is not awaited: the dashboard is notified and the loop goes on
\* while the record is not stored
classifyEmailResolves_noAwait(r, c) ==
    /\ pc[r] = "classifyEmail"
    /\ sse' = [sse EXCEPT ![user[r]] =
                  Notify(@, [id |-> batch[r][idx[r]], classification |-> c,
                             processedAt |-> r], "new_email")]
    /\ NextMessage(r)
    /\ UNCHANGED <<resp, env, user, hist, last, batch>>
    /\ UNCHANGED <<tokens, cursor, mailbox, published, store>>
    /\ UNCHANGED ui

\* lines 112-129: the classification arrives, emailData is built and
\* saveEmailClassification is called
classifyEmailResolves(r, c) ==
    /\ pc[r] = "classifyEmail"
    /\ cls' = [cls EXCEPT ![r] = c]
    /\ pc' = [pc EXCEPT ![r] = "saveEmailClassification"]
    /\ UNCHANGED <<resp, env, user, hist, last, batch, idx>>
    /\ UNCHANGED services
    /\ UNCHANGED ui

\* classifyEmail rejects, or building emailData throws (toISOString of an
\* invalid internalDate)
classifyEmailFails(r) ==
    /\ pc[r] = "classifyEmail"
    /\ MessageCatch(r)
    /\ UNCHANGED <<resp, env, user, hist, last, batch>>
    /\ UNCHANGED services
    /\ UNCHANGED ui

\* the record is given an id of its own instead of the messageId
EmailData_ownId(r) ==
    [id |-> batch[r][idx[r]] + MaxMsgs * r, classification |-> cls[r],
     processedAt |-> r]

\* lines 116-126; processedAt is the task that built the record
EmailData(r) ==
    [id |-> batch[r][idx[r]], classification |-> cls[r], processedAt |-> r]

\* lines 129-135: the save resolves, then the dashboard is notified and the
\* loop goes on
AfterSave(r) ==
    /\ sse' = [sse EXCEPT ![user[r]] = Notify(@, EmailData(r), "new_email")]
    /\ NextMessage(r)

\* the cursor is stored after every saved message
saveEmailClassificationResolves_storesCursor(r) ==
    /\ pc[r] = "saveEmailClassification"
    /\ store' = [store EXCEPT ![user[r]] = Upsert(@, EmailData(r))]
    /\ cursor' = [cursor EXCEPT ![user[r]] = CursorValue(r)]
    /\ AfterSave(r)
    /\ UNCHANGED <<resp, env, user, hist, last, batch>>
    /\ UNCHANGED <<tokens, mailbox, published>>
    /\ UNCHANGED ui

saveEmailClassificationResolves(r) ==
    /\ pc[r] = "saveEmailClassification"
    /\ store' = [store EXCEPT ![user[r]] = Upsert(@, EmailData(r))]
    /\ AfterSave(r)
    /\ UNCHANGED <<resp, env, user, hist, last, batch>>
    /\ UNCHANGED <<tokens, cursor, mailbox, published>>
    /\ UNCHANGED ui

\* the dashboard is notified before the save is awaited
saveEmailClassificationRejects_notified(r) ==
    /\ pc[r] = "saveEmailClassification"
    /\ sse' = [sse EXCEPT ![user[r]] = Notify(@, EmailData(r), "new_email")]
    /\ MessageCatch(r)
    /\ UNCHANGED <<resp, env, user, hist, last, batch>>
    /\ UNCHANGED <<tokens, cursor, mailbox, published, store>>
    /\ UNCHANGED ui

saveEmailClassificationRejects(r) ==
    /\ pc[r] = "saveEmailClassification"
    /\ MessageCatch(r)
    /\ UNCHANGED <<resp, env, user, hist, last, batch>>
    /\ UNCHANGED services
    /\ UNCHANGED ui

\* the write keeps the larger of the stored and the new historyId
storeLastHistoryIdResolves_compared(r) ==
    /\ pc[r] = "storeLastHistoryId"
    /\ cursor' = [cursor EXCEPT ![user[r]] =
                     IF @ > CursorValue(r) THEN @ ELSE CursorValue(r)]
    /\ Return(r, "taskEnd")
    /\ UNCHANGED resp
    /\ UNCHANGED <<tokens, mailbox, published, store, sse>>
    /\ UNCHANGED ui

\* lines 90-91 and 144-145: the cursor write settles
storeLastHistoryIdResolves(r) ==
    /\ pc[r] = "storeLastHistoryId"
    /\ cursor' = [cursor EXCEPT ![user[r]] = CursorValue(r)]
    /\ Return(r, "taskEnd")
    /\ UNCHANGED resp
    /\ UNCHANGED <<tokens, mailbox, published, store, sse>>
    /\ UNCHANGED ui

storeLastHistoryIdRejects(r) ==
    /\ pc[r] = "storeLastHistoryId"
    /\ TaskCatch(r)
    /\ UNCHANGED resp
    /\ UNCHANGED services
    /\ UNCHANGED ui

\* ------------------------------------------------------------------ Next
\* the steps of the requests that are being handled
Step(r) ==
    \/ handlePubSubWebhook(r)
    \/ getStoredTokenRejects(r)
    \/ NoAccessToken(r)
    \/ StartProcessing(r)
    \/ getGmailClientResolves(r)
    \/ getGmailClientRejects(r)
    \/ getLastHistoryIdResolves(r)
    \/ getLastHistoryIdRejects(r)
    \/ getMessagesResolves(r)
    \/ getMessagesRejects(r)
    \/ getMessageResolves(r)
    \/ getMessageFails(r)
    \/ \E c \in ClassifierOutputs : classifyEmailResolves(r, c)
    \/ classifyEmailFails(r)
    \/ saveEmailClassificationResolves(r)
    \/ saveEmailClassificationRejects(r)
    \/ storeLastHistoryIdResolves(r)
    \/ storeLastHistoryIdRejects(r)

\* Requests arrive at any time: handlers and tasks overlap freely.
Next ==
    \/ \E u \in Users : MailArrives(u)
    \/ \E r \in Reqs, e \in Envelopes : Push(r, e)
    \/ \E r \in Reqs : Step(r)

Spec == Init /\ [][Next]_vars

\* Requests arrive one after the other: a request is received when the
\* handler and the task of the previous one have ended.
PushNext(r, e) ==
    /\ InFlight = {}
    /\ Push(r, e)

NextSeq ==
    \/ \E u \in Users : MailArrives(u)
    \/ \E r \in Reqs, e \in Envelopes : PushNext(r, e)
    \/ \E r \in Reqs : Step(r)

SpecSeq == Init /\ [][NextSeq]_vars

\* The same, where every call that is awaited eventually resolves or
\* rejects and the continuation then runs: a request that can take a step
\* eventually takes one.
SpecLive == SpecSeq /\ \A r \in Reqs : WF_vars(Step(r))

\* The dashboard in the browser: the Inbox on the stream of its user and
\* the Start Gmail Monitoring button.
NextUI ==
    \/ \E u \in Users : InboxRender(u)
    \/ InboxEffect
    \/ InboxUnmount
    \/ \E u \in Users : \E event \in SseEvents(u) : InboxMessage(event)
    \/ TokenCleared
    \/ startWatching
    \/ axiosPostResolves
    \/ axiosPostRejects

\* the page is opened before any notification has been processed
InitUI == Init /\ \A u \in Users : cursor[u] = Undefined

SpecUI == InitUI /\ [][NextUI]_vars

\* Pub/Sub delivers one and the same envelope NumReqs times (at-least-once
\* delivery, retries): the copies are received together and wait in the
\* server's queue, then each is handled with the services as the earlier
\* ones left them and with its own outcomes of the awaited calls.
PushTwin(r, e) ==
    /\ \A q \in Reqs : q < r => pc[q] = "received" /\ env[q] = e
    /\ Push(r, e)

StepTwin(r) ==
    /\ \A q \in Reqs : pc[q] # "idle"
    /\ InFlight \ {q \in Reqs : pc[q] = "received"} \subseteq {r}
    /\ Step(r)

NextTwin ==
    \/ \E u \in Users : MailArrives(u)
    \/ \E r \in Reqs, e \in Envelopes : PushTwin(r, e)
    \/ \E r \in Reqs : StepTwin(r)

SpecTwin == Init /\ [][NextTwin]_vars

\* ================================================================ claims
\* the envelope's message.data decodes to a JSON object
DecodesToPayload(e) ==
    /\ e.message
    /\ e.data.kind = "object"

\* --- C1: for a request whose message.data decodes to a JSON payload, the
\* 200 is sent before the token lookup and before any step of the task: the
\* synchronous part of the handler sends it, touching no service, and
\* whenever the lookup or a step of the task is pending the 200 is the one
\* response the request has got.
C1_AckBeforeWork ==
    [][\A r \in Reqs :
          /\ (pc[r] = "received" /\ DecodesToPayload(env[r])
                /\ pc'[r] # pc[r])
                => /\ resp[r] = <<>>
                   /\ resp'[r] = <<200>>
                   /\ pc'[r] = "getStoredToken"
                   /\ UNCHANGED services
          /\ (pc'[r] \in {"getStoredToken"} \cup TaskPcs)
                => resp'[r] = <<200>>]_vars

C1_Witness ==
    \E r \in Reqs :
        /\ DecodesToPayload(env[r])
        /\ pc[r] = "saveEmailClassification"
        /\ resp[r] = <<200>>

\* --- C2: a request without message or without message.data is answered
\* 400 and nothing else happens for it: the handler ends at once, no service
\* (token store, Gmail, Result Store, SSE, Watch State) is touched, and the
\* request takes no step later.
C2_Malformed400 ==
    [][\A r \in Reqs :
          /\ (pc[r] = "received" /\ InvalidFormat(env[r]) /\ pc'[r] # pc[r])
                => /\ pc'[r] = "return400"
                   /\ resp'[r] = <<400>>
                   /\ NoLocals(r)'
                   /\ UNCHANGED services
          /\ pc[r] = "return400"
                => (pc'[r] = "return400" /\ resp'[r] = resp[r])
          /\ (pc'[r] = "return400" /\ pc[r] # "return400")
                => (pc[r] = "received" /\ InvalidFormat(env[r]))]_vars

C2_Witness ==
    \E r \in Reqs :
        /\ pc[r] = "return400"
        /\ resp[r] = <<400>>
        /\ NoLocals(r)

\* --- C3 (as claimed): a request whose message.data is present but does not
\* decode is answered 400, never 200, and ends there.
C3_UndecodableIs400 ==
    [][\A r \in Reqs :
          (pc[r] = "received" /\ env[r].message
             /\ env[r].data.kind = "not_json" /\ pc'[r] # pc[r])
             => (resp'[r] = <<400>> /\ pc'[r] \in EndPcs)]_vars

\* --- C4: when the token lookup finds no access token, the handler (which
\* has answered 200) ends there: the task is not started, no service is
\* touched, the cursor keeps its value, and the request does nothing later.
C4_NoTokenDropped ==
    [][\A r \in Reqs :
          /\ (pc[r] = "getStoredToken" /\ ~AccessToken(user[r])
                /\ pc'[r] # pc[r])
                => /\ pc'[r] \in {"noToken", "catch500"}
                   /\ resp[r] = <<200>>
                   /\ UNCHANGED services
          /\ pc[r] = "noToken"
                => (pc'[r] = "noToken" /\ resp'[r] = resp[r])
          /\ (pc'[r] = "noToken" /\ pc[r] # "noToken")
                => (pc[r] = "getStoredToken" /\ ~AccessToken(user[r]))]_vars

\* a notification for a user without token was acknowledged and dropped
C4_Witness ==
    \E r \in Reqs :
        /\ pc[r] = "noToken"
        /\ resp[r] = <<200>>
        /\ \A q \in Reqs \ {r} : pc[q] = "idle"
        /\ \E u \in Users \ tokens :
              /\ mailbox[u] > 0
              /\ cursor[u] = Undefined /\ store[u] = <<>> /\ sse[u] = <<>>

\* the ids of the new_email events task r has emitted, in stream order
NotifiedBy(r, u) ==
    LET byR(ev) == ev.email.processedAt = r
        evs == SelectSeq(sse[u], byR)
    IN  [i \in 1..Len(evs) |-> evs[i].email.id]

\* the step is a step of request r
Moves(r) == pc'[r] # pc[r] \/ idx'[r] # idx[r]

\* task r takes a step out of the processing of its current message without
\* a notification: the message has failed
MessageFails(r) ==
    /\ pc[r] \in LoopPcs
    /\ pc'[r] \notin {"classifyEmail", "saveEmailClassification"}
    /\ Moves(r)
    /\ sse' = sse

Notification(r) == env[r].data

\* --- C6: when the listing has succeeded and the batch is over (it was
\* empty, or its last message was saved or has failed), the task calls the
\* cursor write, and when that write resolves the user's cursor is the
\* historyId of the notification, whatever happened to the messages.
C6_CursorIsNotificationHistoryId ==
    [][\A r \in Reqs :
          /\ (pc[r] = "getMessagesSinceHistoryId" /\ pc'[r] \notin
                  {"getMessagesSinceHistoryId", "taskCatch"})
                => IF Len(batch'[r]) = 0 THEN pc'[r] = "storeLastHistoryId"
                                         ELSE pc'[r] = "getMessage"
          /\ (pc[r] \in LoopPcs /\ pc'[r] \notin LoopPcs)
                => (idx[r] = Len(batch[r]) /\ pc'[r] = "storeLastHistoryId")
          /\ (pc[r] = "storeLastHistoryId" /\ pc'[r] = "taskEnd")
                => /\ cursor'[Notification(r).emailAddress]
                         = Notification(r).historyId
                   /\ \A u \in Users \ {Notification(r).emailAddress} :
                         cursor'[u] = cursor[u]]_vars

\* the one task that has run has ended with nothing saved while two messages
\* were in the mailbox, and the cursor is at the historyId of its
\* notification (that of message 1)
C6_Witness ==
    \E r \in Reqs :
        /\ pc[r] = "taskEnd"
        /\ \A q \in Reqs \ {r} : pc[q] = "idle"
        /\ mailbox["u1"] = 2
        /\ cursor["u1"] = HistoryIdOf(1)
        /\ store["u1"] = <<>>
        /\ sse["u1"] = <<>>

\* the event notifyEmailUpdate(userEmail, emailData, 'new_email') emits
NewEmail(emailData) == [type |-> "new_email", email |-> emailData]

\* task r has saved its current message and notified the dashboard of it
SavedAndNotified(r) ==
    /\ pc[r] = "saveEmailClassification"
    /\ \E i \in 1..Len(store'[user[r]]) : store'[user[r]][i] = EmailData(r)
    /\ sse'[user[r]] = Append(sse[user[r]], NewEmail(EmailData(r)))

\* the position of messageId id in the batch b
Pos(b, id) == CHOOSE k \in 1..Len(b) : b[k] = id

\* the events task r has emitted are about messages it has been through, in
\* the order of the batch
InSourceOrder(r) ==
    LET n == NotifiedBy(r, user[r])
    IN  /\ \A i \in 1..Len(n) : \E k \in 1..idx[r] : batch[r][k] = n[i]
        /\ \A i, j \in 1..Len(n) :
              i < j => Pos(batch[r], n[i]) < Pos(batch[r], n[j])

\* --- C7: a task goes through its batch one message at a time in the order
\* of the listing: the fetch of message i+1 is started by the very step in
\* which message i is saved and notified or fails, never earlier, and the
\* new_email events of the task are in the order of the batch.
C7_OneAtATimeInSourceOrder ==
    [][\A r \in Reqs :
          /\ (idx'[r] # idx[r] /\ pc'[r] \in LoopPcs)
                => /\ idx'[r] = idx[r] + 1
                   /\ pc'[r] = "getMessage"
                   /\ \/ pc[r] = "getMessagesSinceHistoryId" /\ idx[r] = 0
                      \/ /\ pc[r] \in LoopPcs
                         /\ batch'[r] = batch[r]
                         /\ MessageFails(r) \/ SavedAndNotified(r)
          /\ (pc[r] \in LoopPcs /\ idx'[r] = idx[r] /\ pc'[r] \in LoopPcs
                /\ pc'[r] # pc[r])
                => <<pc[r], pc'[r]>> \in {<<"getMessage", "classifyEmail">>,
                                          <<"classifyEmail",
                                            "saveEmailClassification">>}
          /\ (pc'[r] \in LoopPcs \cup {"storeLastHistoryId"})
                => InSourceOrder(r)']_vars

\* a task has saved and notified both messages of its batch, the first
\* before the second
C7_Witness ==
    \E r \in Reqs :
        /\ pc[r] = "storeLastHistoryId"
        /\ Len(batch[r]) = 2
        /\ NotifiedBy(r, user[r]) = batch[r]

\* the messages of its batch task r has not saved and notified
FailedIn(r) == SeqToSet(batch[r]) \ SeqToSet(NotifiedBy(r, user[r]))

\* --- C8 (as claimed): when a task has gone through its batch and written
\* the cursor, the listing that starts from the cursor it wrote (the batch of
\* the next notification for that user) holds none of the messages that
\* failed in this batch.
C8_FailedNotRetried ==
    [][\A r \in Reqs :
          (pc[r] = "storeLastHistoryId" /\ pc'[r] = "taskEnd"
             /\ ~Falsy(cursor'[user[r]]))
             => \A m \in FailedIn(r) :
                   m \notin SeqToSet(MessagesSince(user[r],
                                                   cursor'[user[r]]))]_vars

\* no two records of the array have the same id
NoDuplicateIds(arr) ==
    \A i, j \in 1..Len(arr) : arr[i].id = arr[j].id => i = j

\* --- C9: a user's stored records never hold two records with the same
\* message id, and when a task has saved a message the record under that
\* message's id is the one this task built, also when an earlier or an
\* overlapping task had saved the same message before.
C9_OneRecordPerMessage ==
    [][/\ \A u \in Users : NoDuplicateIds(store'[u])
       /\ \A r \in Reqs :
             (pc[r] = "saveEmailClassification"
                /\ Moves(r)
                /\ store'[user[r]] # store[user[r]])
                => \E i \in 1..Len(store'[user[r]]) :
                      /\ store'[user[r]][i].id = batch[r][idx[r]]
                      /\ store'[user[r]][i].processedAt = r]_vars

\* task 1 has saved and notified message 1 and is still running; task 2,
\* overlapping it, has saved message 1 again, and one record is stored
C9_Witness ==
    /\ pc[1] \in TaskPcs
    /\ \E i \in 1..Len(sse["u1"]) :
          sse["u1"][i].email.id = 1 /\ sse["u1"][i].email.processedAt = 1
    /\ Len(store["u1"]) = 1
    /\ store["u1"][1].id = 1
    /\ store["u1"][1].processedAt = 2

\* --- C10: a new_email event is emitted only in the step in which the save
\* of that message's record by the same task has resolved, to that user's
\* stream and once; a save that resolves emits exactly one event, and a step
\* in which the save fails emits none.
C10_NotifyOnlyAfterSave ==
    [][/\ \A u \in Users :
             sse'[u] # sse[u]
                => \E r \in Reqs : user[r] = u /\ SavedAndNotified(r)
       /\ \A r \in Reqs :
             (pc[r] = "saveEmailClassification"
                /\ Moves(r))
                => IF store'[user[r]] # store[user[r]]
                   THEN /\ SavedAndNotified(r)
                        /\ \A u \in Users \ {user[r]} : sse'[u] = sse[u]
                   ELSE sse' = sse]_vars

\* of the two messages of a batch the first was saved and notified, the save
\* of the second failed: one record, one event
C10_Witness ==
    \E r \in Reqs :
        /\ pc[r] = "storeLastHistoryId"
        /\ Len(batch[r]) = 2
        /\ sse[user[r]] = <<NewEmail([id |-> batch[r][1],
                                      classification |-> "scam",
                                      processedAt |-> r])>>
        /\ store[user[r]] = <<sse[user[r]][1].email>>

\* neither the stored records nor the dashboard stream of a user have
\* anything from task r about message m
NoTraceOf(r, m, records, stream) ==
    /\ \A i \in 1..Len(records) :
          ~(records[i].id = m /\ records[i].processedAt = r)
    /\ \A i \in 1..Len(stream) :
          ~(stream[i].email.id = m /\ stream[i].email.processedAt = r)

\* --- C11: when the fetch or the classification of a message fails, the
\* step writes nothing to the Result Store and pushes nothing to any
\* dashboard stream, the task has left no record and no event for that
\* message, and the streams carry new_email events only (no error event).
C11_FailedMessageAbsent ==
    [][/\ \A r \in Reqs :
             (pc[r] \in {"getMessage", "classifyEmail"} /\ Moves(r)
                /\ pc'[r] \notin {"classifyEmail", "saveEmailClassification"})
                => /\ store' = store
                   /\ sse' = sse
                   /\ NoTraceOf(r, batch[r][idx[r]],
                                store'[user[r]], sse'[user[r]])
       /\ \A u \in Users : \A i \in 1..Len(sse'[u]) :
             sse'[u][i].type = "new_email"]_vars

\* the first message of a batch has failed, the task is about to fetch the
\* second, and neither store nor stream holds anything
C11_Witness ==
    \E r \in Reqs :
        /\ pc[r] = "getMessage"
        /\ idx[r] = 2
        /\ store[user[r]] = <<>>
        /\ sse[user[r]] = <<>>

\* --- C12: whatever new_email events of a user's stream an Inbox receives
\* (all of them, or only some when it was not connected all the time), its
\* list has at most one entry per email id, also when the same message was
\* processed and notified by two notifications.
C12_InboxHasNoDuplicates ==
    \A u \in Users : \A got \in SUBSET (1..Len(sse[u])) :
        NoDuplicateIds(Emails(sse[u], got, Len(sse[u])))

\* message 1 was notified by both notifications; the Inbox that received
\* every event shows it once, with the record of the first
C12_Witness ==
    \E i, j \in 1..Len(sse["u1"]) :
        /\ i < j
        /\ sse["u1"][i].email.id = 1 /\ sse["u1"][i].email.processedAt = 1
        /\ sse["u1"][j].email.id = 1 /\ sse["u1"][j].email.processedAt = 2
        /\ Len(Emails(sse["u1"], 1..Len(sse["u1"]), Len(sse["u1"]))) = 1

WritesCursor(r) == pc[r] = "storeLastHistoryId" /\ pc'[r] = "taskEnd"

\* --- C14: tasks of one user overlap and nothing orders their cursor
\* writes: a task at its cursor write can always do it, the write stores
\* that task's historyId whatever is stored and whatever other tasks do, and
\* nothing else changes the cursor; so after two tasks the cursor is the
\* historyId of the one that wrote last, also when it is the smaller.
C14_LastCursorWriteWins ==
    [][/\ \A r \in Reqs :
             /\ pc[r] = "storeLastHistoryId"
                   => ENABLED storeLastHistoryIdResolves(r)
             /\ WritesCursor(r) => cursor'[user[r]] = hist[r]
       /\ \A u \in Users :
             cursor'[u] # cursor[u]
                => \E r \in Reqs : user[r] = u /\ WritesCursor(r)]_vars

\* task 2, of the later notification (historyId 3), has run and written 3
\* while task 1 of the same user was running; task 1 is at its cursor write
\* with the smaller historyId 2
C14_Witness ==
    /\ pc[2] = "taskEnd"
    /\ cursor["u1"] = HistoryIdOf(2)
    /\ pc[1] = "storeLastHistoryId"
    /\ user[1] = "u1"
    /\ hist[1] = HistoryIdOf(1)

\* --- C15 (as claimed): a user's stored cursor never decreases: no write
\* of a historyId replaces the stored historyId by a smaller one.
C15_CursorNeverDecreases ==
    [][\A u \in Users :
          ~Falsy(cursor'[u]) => cursor'[u] >= cursor[u]]_vars

\* --- C16: the status the caller receives depends only on the request
\* envelope.  Under SpecTwin every request carries the same envelope, while
\* the token lookup, the Gmail calls, classification, storage and the
\* cursor write end differently from one request to the other: all handled
\* requests have received a status, the same one for all, and a status
\* that was sent does not change afterwards.
Handled(r) == pc[r] \notin {"idle", "received"}

C16_StatusDependsOnEnvelopeOnly ==
    [][/\ \A r, q \in Reqs :
            (Handled(r) /\ Handled(q))
               => /\ resp[r] # <<>> /\ resp[q] # <<>>
                  /\ resp[r][1] = resp[q][1]
       /\ \A r \in Reqs :
            resp[r] # <<>> => resp'[r] # <<>> /\ resp'[r][1] = resp[r][1]]_vars

\* the same valid notification twice: one task ran to the end, for the
\* other the token lookup threw and the catch block tried to send 500;
\* both callers received 200
C16_Witness ==
    /\ pc[1] = "taskEnd" /\ resp[1] = <<200>>
    /\ pc[2] = "catch500" /\ resp[2] = <<200, 500>>

\* --- C17 (as claimed): when the tasks of a user's notifications do not
\* overlap, no message id is classified and saved by more than one
\* notification's batch: the saves announced on the user's stream (one
\* event per save, C10) never hold the same message id from two tasks.
\* Stated for the runs where the Watch State is kept: no task was aborted,
\* every notification carries a historyId and a cursor is stored.
WatchStateKept(u) ==
    /\ ~Falsy(cursor[u])
    /\ \A r \in Reqs :
          /\ pc[r] # "taskCatch"
          /\ pc[r] \in TaskPcs => ~Falsy(hist[r])

C17_NoReprocessing ==
    \A u \in Users :
        WatchStateKept(u)
           => \A i, j \in 1..Len(sse[u]) :
                 sse[u][i].email.id = sse[u][j].email.id
                    => sse[u][i].email.processedAt = sse[u][j].email.processedAt

\* --- C18: every valid notification of a user with a stored token starts
\* its own task, however many tasks are running: whatever the other
\* requests are doing, a request can be received, a received request can be
\* handled, and an acknowledged request whose user has a token can start
\* its task; so all accepted notifications can have their tasks running
\* at the same time, also for one user.
C18_NoBackpressure ==
    \A r \in Reqs :
        /\ (pc[r] = "idle" /\ \A q \in Reqs : q < r => pc[q] # "idle")
              => \A e \in Deliverable : ENABLED Push(r, e)
        /\ pc[r] = "received" => ENABLED handlePubSubWebhook(r)
        /\ (pc[r] = "getStoredToken" /\ AccessToken(user[r]))
              => ENABLED StartProcessing(r)

\* all the notifications were accepted for u1 and their tasks are running
\* at the same time
C18_Witness ==
    \A r \in Reqs : pc[r] \in TaskPcs /\ user[r] = "u1" /\ resp[r] = <<200>>

\* decoding the envelope's data throws: JSON.parse at line 22, or the
\* destructuring of null at line 26
ThrowsBeforeAck(e) ==
    /\ ~InvalidFormat(e)
    /\ LET md == JSONParse(e.data) IN ~md.ok \/ md.isNull

\* --- C19: an error raised before the acknowledgement makes the handler
\* respond 500 and end without touching any service or starting the task,
\* and it stays ended; every request that was handled has been answered,
\* and its answer is one of 200, 400, 500 and stays what it was.
C19_ErrorBeforeAckIs500 ==
    [][\A r \in Reqs :
          /\ (pc[r] = "received" /\ pc'[r] # "received"
                 /\ ThrowsBeforeAck(env[r]))
                => /\ resp'[r] = <<500>>
                   /\ pc'[r] = "catch500"
                   /\ UNCHANGED services
          /\ pc[r] = "catch500" => pc'[r] = "catch500" /\ resp'[r] = resp[r]
          /\ Handled(r) => Len(resp[r]) >= 1 /\ resp[r][1] \in {200, 400, 500}
          /\ Len(resp[r]) >= 1
                => Len(resp'[r]) >= 1 /\ resp'[r][1] = resp[r][1]]_vars

\* a request whose data could not be decoded has been answered 500 and
\* nothing else happened for it
C19_Witness ==
    \E r \in Reqs :
        /\ pc[r] = "catch500" /\ resp[r] = <<500>>
        /\ \A u \in Users : store[u] = <<>> /\ sse[u] = <<>>

\* --- C20: when a cursor is stored for the user, the task lists from the
\* stored value it read at its start, not from the notification's
\* historyId, and the batch it gets holds every message that was added to
\* the mailbox after that cursor and before the listing.
C20_BatchFromStoredCursor ==
    [][\A r \in Reqs :
          /\ (pc[r] = "getLastHistoryId"
                 /\ pc'[r] = "getMessagesSinceHistoryId"
                 /\ ~Falsy(cursor[user[r]]))
                => last'[r] = cursor[user[r]]
          /\ (pc[r] = "getMessagesSinceHistoryId"
                 /\ pc'[r] \in {"getMessage", "storeLastHistoryId"})
                => /\ last'[r] = last[r]
                   /\ \A m \in 1..mailbox[user[r]] :
                         HistoryIdOf(m) > last[r]
                            => m \in SeqToSet(batch'[r])]_vars

\* the stored cursor is before both messages, the notification's historyId
\* is behind them: listing from the notification would return nothing
C20_Witness ==
    \E r \in Reqs :
        /\ pc[r] = "getMessage"
        /\ last[r] = BaseHist /\ hist[r] = HistoryIdOf(2)
        /\ batch[r] = <<1, 2>>

\* --- C21 (as claimed): when no cursor is stored for the user, the task
\* goes on with the notification's own historyId: the listing is called
\* with that historyId, which is a history position.
C21_FallbackToNotificationHistoryId ==
    [][\A r \in Reqs :
          (pc[r] = "getLastHistoryId"
              /\ pc'[r] = "getMessagesSinceHistoryId"
              /\ Falsy(cursor[user[r]]))
             => last'[r] = hist[r] /\ ~Falsy(last'[r])]_vars

\* --- C22: a task writes the Watch State at most once and only after its
\* batch: the cursor changes only in the step that completes a task's
\* storeLastHistoryId call, that call is made when the loop has been
\* through every message of the batch (or the batch was empty), no step of
\* the loop touches the cursor, and after the call the task has ended.
C22_CursorWrittenOnceAfterBatch ==
    [][/\ \A u \in Users :
            cursor'[u] # cursor[u]
               => \E r \in Reqs : user[r] = u /\ WritesCursor(r)
       /\ \A r \in Reqs :
            /\ (pc'[r] = "storeLastHistoryId" /\ pc[r] # "storeLastHistoryId")
                  => /\ pc[r] \in LoopPcs \cup {"getMessagesSinceHistoryId"}
                     /\ idx'[r] = Len(batch'[r])
            /\ pc[r] = "storeLastHistoryId"
                  => /\ idx[r] = Len(batch[r])
                     /\ pc'[r] \in {"storeLastHistoryId", "taskEnd", "taskCatch"}
            /\ (pc[r] \in LoopPcs /\ Moves(r)) => cursor' = cursor
            /\ pc[r] \in {"taskEnd", "taskCatch"} => pc'[r] = pc[r]]_vars

\* the first task has ended after saving both messages of its batch and
\* has stored its notification's historyId
C22_Witness ==
    /\ pc[1] = "taskEnd" /\ pc[2] = "idle"
    /\ Len(store["u1"]) = 2
    /\ cursor["u1"] = HistoryIdOf(2)

\* --- C23 (as claimed): the handler sends exactly one response per
\* request: no request ever has a second response sent for it.
C23_OneResponsePerRequest ==
    \A r \in Reqs : Len(resp[r]) <= 1

\* --- C24 (as claimed): a notification is acknowledged with 200 only when
\* its decoded payload has both an emailAddress and a historyId, and no
\* cursor write stores an absent historyId.
C24_AcceptedPayloadIsComplete ==
    [][/\ \A r \in Reqs :
            (pc[r] = "received" /\ resp'[r] = <<200>>)
               => LET md == JSONParse(env[r].data)
                  IN  md.emailAddress # NoUser /\ md.historyId # Undefined
       /\ \A r \in Reqs :
            WritesCursor(r) => ~Falsy(cursor'[user[r]])]_vars

\* the calls a task makes before it has a batch
SetupPcs == {"getGmailClient", "getLastHistoryId", "getMessagesSinceHistoryId"}

\* --- C25: when getGmailClient, getLastHistoryId or the listing fails, the
\* task ends in its catch block: that step and every step the task took
\* before it leave the cursor, the Result Store and the streams as they
\* were, nothing stored or pushed comes from the task, no response is
\* sent, and the task stays ended.
C25_SetupFailureChangesNothing ==
    [][\A r \in Reqs :
          /\ (pc[r] \in SetupPcs /\ Moves(r))
                => /\ UNCHANGED services
                   /\ resp' = resp
                   /\ \A m \in 1..MaxMsgs :
                         NoTraceOf(r, m, store[user[r]], sse[user[r]])
          /\ (pc[r] \in SetupPcs /\ pc'[r] \notin SetupPcs)
                => \/ pc'[r] = "taskCatch"
                   \/ pc[r] = "getMessagesSinceHistoryId"
                        /\ pc'[r] \in {"getMessage", "storeLastHistoryId"}
          /\ pc[r] = "taskCatch" => pc'[r] = "taskCatch"]_vars

\* a task of u1 has ended in its catch block with a message waiting in the
\* mailbox; the cursor is the one of before, nothing was saved or pushed
C25_Witness ==
    /\ pc[1] = "taskCatch" /\ pc[2] = "idle"
    /\ mailbox["u1"] = 1 /\ cursor["u1"] = BaseHist
    /\ store["u1"] = <<>> /\ sse["u1"] = <<>>

\* --- C26: when every awaited call eventually settles, every task that was
\* started eventually ends, and it ends by returning, from the end of the
\* function or from its catch block: a running task never goes anywhere
\* but to its next call or to one of these two ends.
C26_TaskTerminatesResolved ==
    /\ \A r \in Reqs :
          (pc[r] \in TaskPcs) ~> (pc[r] \in {"taskEnd", "taskCatch"})
    /\ [][\A r \in Reqs :
             pc[r] \in TaskPcs
                => pc'[r] \in TaskPcs \cup {"taskEnd", "taskCatch"}]_vars

\* both tasks have ended, one at the end of the function and one in the
\* catch block
C26_Witness ==
    /\ pc[1] = "taskEnd" /\ pc[2] = "taskCatch"
    /\ user = [r \in Reqs |-> NoUser]

\* a 'new_email' message that carries an email whose id is not in the list
UnseenNewEmail(event, list) ==
    /\ event.json /\ event.type = "new_email" /\ event.hasEmail
    /\ \A i \in 1..Len(list) : list[i].id # event.email.id

\* --- C27: whatever the list is, a message that is not JSON, a message of
\* another type, a 'new_email' without an email and a 'new_email' whose id
\* is in the list leave it as it is, and a 'new_email' with an unseen id
\* puts its email at the head.
C27_OnlyUnseenNewEmailChangesList ==
    \A u \in Users : \A event \in SseEvents(u) :
        eventSource_onmessage(emails, event) =
           IF UnseenNewEmail(event, emails)
           THEN <<event.email>> \o emails
           ELSE emails

\* two emails of u1 have arrived, the later one is at the head
C27_Witness ==
    emails = <<[id |-> MessageIdOf("u1", 2)], [id |-> MessageIdOf("u1", 1)]>>

\* the stream an email of the list was received on: the mailbox its id
\* belongs to
StreamOf(email) == email.id[1]

\* --- C28 (as claimed): once the effect of a new userEmail has run (the
\* previous EventSource is closed and the new one is open), the list holds
\* only emails that were received on the stream of the current userEmail.
C28_ListIsOfCurrentUser ==
    eventSource = userEmail
       => \A i \in 1..Len(emails) : StreamOf(emails[i]) = userEmail

\* --- C29: isWatching becomes true only in the step in which the POST to
\* /api/gmail/watch succeeds; without a stored token a click sends no POST
\* and shows '/', which nothing else does; and whenever startWatching is
\* not waiting for the POST the loading flag is false.
C29_StartWatching ==
    [][/\ (isWatching' /\ ~isWatching)
             => watchPc = "axios.post" /\ watchPc' = "idle"
       /\ isWatching => isWatching'
       /\ (watchPc = "idle" /\ ~storedToken) => watchPc' = "idle"
       /\ (location = "/dashboard" /\ watchPc = "idle" /\ ~storedToken
              /\ ~isWatching)
             => ENABLED (startWatching /\ location' = "/")
       /\ location' # location
             => ~storedToken /\ location' = "/" /\ watchPc' = "idle"
       /\ watchPc = "idle" => ~loading
       /\ watchPc' = "idle" => ~loading']_vars

\* the POST has succeeded: monitoring is on and the flag is down again
C29_Witness ==
    /\ isWatching /\ ~loading
    /\ watchPc = "idle" /\ location = "/dashboard"

===============================================================================
